---- MODULE Spec2Model ----
(***************************************************************************)
(* Track-changes editing of one paragraph (docx_revisions/revisions.py).   *)
(*                                                                         *)
(* A paragraph is the ordered list of the children of its XML element.     *)
(* Each child is a record                                                  *)
(*   tag               "r" (run), "ins" (w:ins), "del" (w:del), or another *)
(*                     local name (e.g. "pPr") that carries no text        *)
(*   author, date, id  the w:author / w:date / w:id attributes, None when  *)
(*                     the attribute is absent (always absent on a run)    *)
(*   t                 the concatenated w:t texts below the element        *)
(*   delText           the concatenated w:delText texts below the element  *)
(*   born              which call-relative object this is: "pre" an object *)
(*                     that existed before the current call, "rev" a       *)
(*                     w:ins / w:del element built by the current call,    *)
(*                     "split" a piece built by the current call when it   *)
(*                     split an existing element.  Object identity in the  *)
(*                     source; it is never read by the operations.         *)
(* Texts are sequences of characters.                                      *)
(***************************************************************************)
EXTENDS Integers, Sequences, FiniteSets, TLC

VARIABLES para, pre, call

vars == <<para, pre, call>>

(***************************************************************************)
(* Bounds of the model.                                                    *)
(***************************************************************************)
\* longest text or new_text argument of a call
MaxText == 1
\* longest old_text argument of a call
MaxOld == 2
\* offsets are drawn from -1-Slack .. (accepted length)+Slack
Slack == 1
\* number of calls in one behaviour
MaxCalls == 1
\* number of calls in one behaviour that starts from plain text
MaxFreshCalls == 2

Chars == {"a", "b"}
Authors == {"Agent", "Editor"}
Dates == {1, 2}
\* the author and date of a call
Stamps == {<<"Agent", 1>>, <<"Editor", 2>>}
None == "None"

Texts(n) == UNION {[1..k -> Chars] : k \in 0..n}

Max2(x, y) == IF x >= y THEN x ELSE y
Min2(x, y) == IF x <= y THEN x ELSE y

(***************************************************************************)
(* Python built-ins used by the source.                                    *)
(***************************************************************************)
\* the index a slice bound k denotes in a sequence of length n
SliceIndex(k, n) == IF k < 0 THEN Max2(k + n, 0) ELSE Min2(k, n)

\* text[lo:hi]
PySlice(text, lo, hi) ==
    LET l == SliceIndex(lo, Len(text))
        h == SliceIndex(hi, Len(text))
    IN  SubSeq(text, l + 1, h)

\* text[:hi]
PySliceTo(text, hi) == PySlice(text, 0, hi)

\* text[lo:]
PySliceFrom(text, lo) == PySlice(text, lo, Len(text))

\* does needle occur in hay at 0-based index i
OccursAt(hay, needle, i) ==
    /\ i >= 0
    /\ i + Len(needle) <= Len(hay)
    /\ SubSeq(hay, i + 1, i + Len(needle)) = needle

\* str.rfind in the place of str.find: the highest index of an occurrence
StrFind_last(hay, needle) ==
    LET hits == {i \in 0..Len(hay) : OccursAt(hay, needle, i)}
    IN  IF hits = {} THEN -1
        ELSE CHOOSE i \in hits : \A j \in hits : i >= j

\* a search that finds no occurrence of the empty string
StrFind_no_empty(hay, needle) ==
    LET hits == {i \in 0..Len(hay) : OccursAt(hay, needle, i)}
    IN  IF hits = {} \/ needle = <<>> THEN -1
        ELSE CHOOSE i \in hits : \A j \in hits : i <= j

\* str.find: the lowest index of an occurrence, -1 when there is none
StrFind(hay, needle) ==
    LET hits == {i \in 0..Len(hay) : OccursAt(hay, needle, i)}
    IN  IF hits = {} THEN -1
        ELSE CHOOSE i \in hits : \A j \in hits : i <= j

\* datetime.isoformat()
IsoStrings == <<"2024-01-15T10:30:00", "2024-01-16T10:30:00">>
IsoFormat(date) == IsoStrings[date]

\* datetime.fromisoformat(), None for a string it does not parse
FromIsoFormat(s) ==
    IF \E d \in Dates : IsoStrings[d] = s
    THEN CHOOSE d \in Dates : IsoStrings[d] = s
    ELSE None

(***************************************************************************)
(* Element constructors.                                                   *)
(***************************************************************************)
_create_run_with_text(text) ==
    [tag |-> "r", author |-> None, date |-> None, id |-> None,
     t |-> text, delText |-> <<>>, born |-> "split"]

_create_del_run_with_text(text) ==
    [tag |-> "r", author |-> None, date |-> None, id |-> None,
     t |-> <<>>, delText |-> text, born |-> "split"]

\* variant of _copy_ins_with_text that copies w:author and w:date only
_copy_ins_without_id(original, text) ==
    [_create_run_with_text(text) EXCEPT
        !.tag = "ins", !.author = original.author, !.date = original.date]

\* a w:ins element with the attributes of original around a run with text
_copy_ins_with_text(original, text) ==
    [_create_run_with_text(text) EXCEPT
        !.tag = "ins", !.author = original.author,
        !.date = original.date, !.id = original.id]

_create_deletion_element(text, author, date) ==
    [_create_del_run_with_text(text) EXCEPT
        !.tag = "del", !.author = author, !.date = IsoFormat(date),
        !.id = "0", !.born = "rev"]

\* the w:ins element insert_with_tracking builds
_create_insertion_element(text, author, date) ==
    [_create_run_with_text(text) EXCEPT
        !.tag = "ins", !.author = author, !.date = IsoFormat(date),
        !.id = "0", !.born = "rev"]

(***************************************************************************)
(* Reading.                                                                *)
(***************************************************************************)
_extract_text_from_element(element) == element.t \o element.delText

RECURSIVE get_accepted_text(_)
get_accepted_text(children) ==
    IF children = <<>> THEN <<>>
    ELSE LET element == Head(children) IN
         (IF element.tag \in {"r", "ins"}
          THEN _extract_text_from_element(element)
          ELSE <<>>) \o get_accepted_text(Tail(children))

Revision(type, text, author, date) ==
    [type |-> type, text |-> text, author |-> author, date |-> date]

\* variant of get_revisions without the test for an empty text
RECURSIVE get_revisions_keeps_empty(_)
get_revisions_keeps_empty(children) ==
    IF children = <<>> THEN <<>>
    ELSE LET element == Head(children)
             author == IF element.author = None THEN "Unknown" ELSE element.author
             date == IF element.date = None THEN None ELSE FromIsoFormat(element.date)
             text == _extract_text_from_element(element)
         IN  (IF element.tag \in {"ins", "del"}
              THEN <<Revision(element.tag, text, author, date)>>
              ELSE <<>>) \o get_revisions_keeps_empty(Tail(children))

RECURSIVE get_revisions(_)
get_revisions(children) ==
    IF children = <<>> THEN <<>>
    ELSE LET element == Head(children)
             author == IF element.author = None THEN "Unknown" ELSE element.author
             date == IF element.date = None THEN None ELSE FromIsoFormat(element.date)
             text == _extract_text_from_element(element)
         IN  (IF element.tag \in {"ins", "del"} /\ text # <<>>
              THEN <<Revision(element.tag, text, author, date)>>
              ELSE <<>>) \o get_revisions(Tail(children))

(***************************************************************************)
(* insert_with_tracking and its helpers.                                   *)
(***************************************************************************)
\* a piece of a split element: the original's tag and attributes, new text
_piece(tag, original, text) ==
    IF tag = "ins" THEN _copy_ins_with_text(original, text)
    ELSE _create_run_with_text(text)

\* _split_and_insert forgetting the offset: new_element goes in front of the
\* whole target
_split_and_insert_unsplit(parent, target_index, new_element, offset) ==
    SubSeq(parent, 1, target_index - 1)
    \o <<new_element, [parent[target_index] EXCEPT !.born = "split"]>>
    \o SubSeq(parent, target_index + 1, Len(parent))

\* _split_and_insert taking the second half one character late
_split_and_insert_late(parent, target_index, new_element, offset) ==
    LET target == parent[target_index]
        text == _extract_text_from_element(target)
        before_text == PySliceTo(text, offset)
        after_text == PySliceFrom(text, offset + 1)
        before == IF before_text # <<>>
                  THEN <<_piece(target.tag, target, before_text)>> ELSE <<>>
        after == IF after_text # <<>>
                 THEN <<_piece(target.tag, target, after_text)>> ELSE <<>>
    IN  SubSeq(parent, 1, target_index - 1)
        \o before \o <<new_element>> \o after
        \o SubSeq(parent, target_index + 1, Len(parent))

\* parent with the child at target_index replaced by its two halves around
\* new_element; an empty half is left out
_split_and_insert(parent, target_index, new_element, offset) ==
    LET target == parent[target_index]
        text == _extract_text_from_element(target)
        before_text == PySliceTo(text, offset)
        after_text == PySliceFrom(text, offset)
        tag == target.tag
        before == IF before_text # <<>>
                  THEN <<_piece(tag, target, before_text)>> ELSE <<>>
        after == IF after_text # <<>>
                 THEN <<_piece(tag, target, after_text)>> ELSE <<>>
    IN  SubSeq(parent, 1, target_index - 1)
        \o before \o <<new_element>> \o after
        \o SubSeq(parent, target_index + 1, Len(parent))

\* variant of the loop that does not pass over a w:del child standing at
\* position: new_element goes in front of it
RECURSIVE _insert_scan_before_deleted(_, _, _, _, _)
_insert_scan_before_deleted(children, i, current_pos, new_element, position) ==
    IF i > Len(children) THEN Append(children, new_element)
    ELSE LET child == children[i] IN
         IF child.tag \in {"r", "ins"}
         THEN LET text_len == Len(_extract_text_from_element(child)) IN
              IF current_pos + text_len > position
              THEN _split_and_insert(children, i, new_element,
                                     position - current_pos)
              ELSE _insert_scan_before_deleted(children, i + 1,
                                               current_pos + text_len,
                                               new_element, position)
         ELSE IF current_pos >= position
         THEN SubSeq(children, 1, i - 1) \o <<new_element>>
              \o SubSeq(children, i, Len(children))
         ELSE _insert_scan_before_deleted(children, i + 1, current_pos,
                                          new_element, position)

\* variant of the loop that also stops at a child ending at position
RECURSIVE _insert_scan_at_end(_, _, _, _, _)
_insert_scan_at_end(children, i, current_pos, new_element, position) ==
    IF i > Len(children) THEN Append(children, new_element)
    ELSE LET child == children[i] IN
         IF child.tag \in {"r", "ins"}
         THEN LET text_len == Len(_extract_text_from_element(child)) IN
              IF current_pos + text_len >= position
              THEN _split_and_insert(children, i, new_element,
                                     position - current_pos)
              ELSE _insert_scan_at_end(children, i + 1, current_pos + text_len,
                                       new_element, position)
         ELSE _insert_scan_at_end(children, i + 1, current_pos, new_element,
                                  position)

\* the loop of _insert_at_position from child i on, current_pos characters
\* of accepted text lying before child i
RECURSIVE _insert_scan(_, _, _, _, _)
_insert_scan(children, i, current_pos, new_element, position) ==
    IF i > Len(children) THEN Append(children, new_element)
    ELSE LET child == children[i] IN
         IF child.tag \in {"r", "ins"}
         THEN LET text_len == Len(_extract_text_from_element(child)) IN
              IF current_pos + text_len > position
              THEN _split_and_insert(children, i, new_element,
                                     position - current_pos)
              ELSE _insert_scan(children, i + 1, current_pos + text_len,
                                new_element, position)
         ELSE _insert_scan(children, i + 1, current_pos, new_element, position)

_insert_at_position(children, new_element, position) ==
    _insert_scan(children, 1, 0, new_element, position)

insert_with_tracking(children, text, position, author, date) ==
    LET ins_elem == _create_insertion_element(text, author, date) IN
    IF position = -1 THEN Append(children, ins_elem)
    ELSE _insert_at_position(children, ins_elem, position)

(***************************************************************************)
(* delete_with_tracking and its helpers.                                   *)
(***************************************************************************)
\* _split_for_deletion taking del_end as an offset into the element
_split_for_deletion_abs(text, elem_start, del_start, del_end, author, date, tag, original) ==
    LET local_del_start == Max2(0, del_start - elem_start)
        local_del_end == Min2(Len(text), del_end)
        before == PySliceTo(text, local_del_start)
        deleted == PySlice(text, local_del_start, local_del_end)
        after == PySliceFrom(text, local_del_end)
    IN  (IF before # <<>> THEN <<_piece(tag, original, before)>> ELSE <<>>)
        \o (IF deleted # <<>>
            THEN <<_create_deletion_element(deleted, author, date)>>
            ELSE <<>>)
        \o (IF after # <<>> THEN <<_piece(tag, original, after)>> ELSE <<>>)

\* _split_for_deletion leaving out the piece after the deleted text
_split_for_deletion_no_after(text, elem_start, del_start, del_end, author, date, tag, original) ==
    LET local_del_start == Max2(0, del_start - elem_start)
        local_del_end == Min2(Len(text), del_end - elem_start)
        before == PySliceTo(text, local_del_start)
        deleted == PySlice(text, local_del_start, local_del_end)
    IN  (IF before # <<>> THEN <<_piece(tag, original, before)>> ELSE <<>>)
        \o (IF deleted # <<>>
            THEN <<_create_deletion_element(deleted, author, date)>>
            ELSE <<>>)

_split_for_deletion(text, elem_start, del_start, del_end, author, date, tag, original) ==
    LET local_del_start == Max2(0, del_start - elem_start)
        local_del_end == Min2(Len(text), del_end - elem_start)
        before == PySliceTo(text, local_del_start)
        deleted == PySlice(text, local_del_start, local_del_end)
        after == PySliceFrom(text, local_del_end)
    IN  (IF before # <<>> THEN <<_piece(tag, original, before)>> ELSE <<>>)
        \o (IF deleted # <<>>
            THEN <<_create_deletion_element(deleted, author, date)>>
            ELSE <<>>)
        \o (IF after # <<>> THEN <<_piece(tag, original, after)>> ELSE <<>>)

\* _mark_child wrapping a wholly covered w:ins without replacing its
\* w:author and w:date
_mark_child_keeps_attribution(child, current_pos, start, end, author, date) ==
    IF child.tag \notin {"r", "ins"} THEN <<child>>
    ELSE LET text == _extract_text_from_element(child)
             elem_start == current_pos
             elem_end == current_pos + Len(text)
         IN  IF elem_end <= start \/ elem_start >= end THEN <<child>>
             ELSE IF elem_start >= start /\ elem_end <= end
             THEN IF child.tag = "ins"
                  THEN <<[_create_deletion_element(text, author, date) EXCEPT
                             !.author = child.author, !.date = child.date]>>
                  ELSE <<_create_deletion_element(text, author, date)>>
             ELSE _split_for_deletion(text, elem_start, start, end,
                                      author, date, child.tag, child)

\* variant of _mark_child that stamps the deletions it passes with the
\* call's author and date
_mark_child_restamps_deleted(child, current_pos, start, end, author, date) ==
    IF child.tag = "del"
    THEN <<[child EXCEPT !.author = author, !.date = IsoFormat(date)]>>
    ELSE IF child.tag # "ins" /\ child.tag # "r" THEN <<child>>
    ELSE LET text == _extract_text_from_element(child)
             elem_start == current_pos
             elem_end == current_pos + Len(text)
         IN  IF elem_end <= start \/ elem_start >= end THEN <<child>>
             ELSE IF elem_start >= start /\ elem_end <= end
             THEN <<_create_deletion_element(text, author, date)>>
             ELSE _split_for_deletion(text, elem_start, start, end,
                                      author, date, child.tag, child)

\* what one child contributes to new_children, current_pos characters of
\* accepted text lying before it
_mark_child(child, current_pos, start, end, author, date) ==
    IF child.tag \notin {"r", "ins"} THEN <<child>>
    ELSE LET text == _extract_text_from_element(child)
             elem_start == current_pos
             elem_end == current_pos + Len(text)
         IN  IF elem_end <= start \/ elem_start >= end THEN <<child>>
             ELSE IF elem_start >= start /\ elem_end <= end
             THEN <<_create_deletion_element(text, author, date)>>
             ELSE _split_for_deletion(text, elem_start, start, end,
                                      author, date, child.tag, child)

\* the loop of _mark_range_as_deleted from child i on
RECURSIVE _mark_scan(_, _, _, _, _, _, _)
_mark_scan(children, i, current_pos, start, end, author, date) ==
    IF i > Len(children) THEN <<>>
    ELSE LET child == children[i]
             text_len == IF child.tag \in {"r", "ins"}
                         THEN Len(_extract_text_from_element(child)) ELSE 0
         IN  _mark_child(child, current_pos, start, end, author, date)
             \o _mark_scan(children, i + 1, current_pos + text_len,
                           start, end, author, date)

_mark_range_as_deleted(children, start, end, author, date) ==
    _mark_scan(children, 1, 0, start, end, author, date)

\* delete_with_tracking without the early return for start >= end
delete_with_tracking_no_guard(children, start_offset, end_offset, author, date) ==
    _mark_range_as_deleted(children, start_offset, end_offset, author, date)

\* delete_with_tracking taking end_offset as the last offset deleted
delete_with_tracking_inclusive(children, start_offset, end_offset, author, date) ==
    IF start_offset >= end_offset THEN children
    ELSE _mark_range_as_deleted(children, start_offset, end_offset + 1,
                                author, date)

delete_with_tracking(children, start_offset, end_offset, author, date) ==
    IF start_offset >= end_offset THEN children
    ELSE _mark_range_as_deleted(children, start_offset, end_offset,
                                author, date)

(***************************************************************************)
(* replace_with_tracking: the children it leaves, and what it returns.     *)
(***************************************************************************)
replace_pos(children, old_text) ==
    StrFind(get_accepted_text(children), old_text)

\* replace_with_tracking without the early return for pos == -1
replace_with_tracking_no_return(children, old_text, new_text, author, date) ==
    LET pos == replace_pos(children, old_text) IN
    insert_with_tracking(
        delete_with_tracking(children, pos, pos + Len(old_text), author, date),
        new_text, pos, author, date)

\* replace_with_tracking inserting the new text before it deletes the old
replace_with_tracking_insert_first(children, old_text, new_text, author, date) ==
    LET pos == replace_pos(children, old_text) IN
    IF pos = -1 THEN children
    ELSE delete_with_tracking(
             insert_with_tracking(children, new_text, pos, author, date),
             pos, pos + Len(old_text), author, date)

replace_with_tracking(children, old_text, new_text, author, date) ==
    LET pos == replace_pos(children, old_text) IN
    IF pos = -1 THEN children
    ELSE insert_with_tracking(
             delete_with_tracking(children, pos, pos + Len(old_text),
                                  author, date),
             new_text, pos, author, date)

replace_returns(children, old_text) == replace_pos(children, old_text) # -1

(***************************************************************************)
(* The paragraph as a state machine: one action per public call.           *)
(*   para  the children of the paragraph                                   *)
(*   pre   the children as the last call found them                        *)
(*   call  the last call: its name, arguments and return value             *)
(***************************************************************************)
Run(text) == [_create_run_with_text(text) EXCEPT !.born = "pre"]
Ins(text, author, date) ==
    [_create_insertion_element(text, author, date) EXCEPT !.born = "pre"]
Del(text, author, date) ==
    [_create_deletion_element(text, author, date) EXCEPT !.born = "pre"]

\* paragraphs as a document load hands them over: plain ones, and ones that
\* earlier edits have left with revisions
Loaded ==
    { <<>>,
      <<Run(<<"a", "b", "a">>)>>,
      <<Run(<<"a">>), Run(<<"b">>)>>,
      <<Del(<<"a">>, "Editor", 1), Run(<<"b", "a">>)>>,
      <<Run(<<"a">>), Ins(<<"b">>, "Agent", 2)>>,
      <<Run(<<"a">>), Del(<<"b">>, "Agent", 1), Run(<<"b", "a">>)>>,
      <<Ins(<<"a", "b">>, "Editor", 2), Del(<<"a">>, "Agent", 1)>>,
      <<Run(<<"a">>), Ins(<<>>, "Agent", 1), Run(<<"b">>)>> }

\* every child is an object that exists before the next call
Settle(children) == [i \in 1..Len(children) |-> [children[i] EXCEPT !.born = "pre"]]

RECURSIVE RawText(_)
RawText(children) ==
    IF children = <<>> THEN <<>>
    ELSE _extract_text_from_element(Head(children)) \o RawText(Tail(children))

Offsets(children) ==
    (-1 - Slack)..(Len(get_accepted_text(children)) + Slack)

Call(op, text, position, start_offset, end_offset, old_text, author, date, ret) ==
    [op |-> op, text |-> text, position |-> position,
     start_offset |-> start_offset, end_offset |-> end_offset,
     old_text |-> old_text, author |-> author, date |-> date,
     ret |-> ret, n |-> call.n + 1]

Init ==
    /\ para \in Loaded
    /\ pre = para
    /\ call = [op |-> "load", text |-> <<>>, position |-> 0,
               start_offset |-> 0, end_offset |-> 0, old_text |-> <<>>,
               author |-> None, date |-> None, ret |-> None, n |-> 0]

\* the step every call ends with: old is the paragraph the call found, new
\* the one it leaves
Done(old, new, c) ==
    /\ para' = new
    /\ pre' = old
    /\ call' = c

\* date is the local variable after the defaulting of lines 161-162: the
\* argument, or the clock's reading when the argument was left out
InsertCall ==
    \E old \in {Settle(para)} :
         \E text \in Texts(MaxText), position \in Offsets(old),
            stamp \in Stamps :
           LET author == stamp[1]
               date == stamp[2]
           IN  Done(old,
                    insert_with_tracking(old, text, position, author, date),
                    Call("insert", text, position, 0, 0, <<>>, author, date,
                         None))

DeleteCall ==
    \E old \in {Settle(para)} :
         \E start_offset \in Offsets(old), end_offset \in Offsets(old),
            stamp \in Stamps :
           LET author == stamp[1]
               date == stamp[2]
           IN  Done(old,
                    delete_with_tracking(old, start_offset, end_offset,
                                         author, date),
                    Call("delete", <<>>, 0, start_offset, end_offset, <<>>,
                         author, date, None))

ReplaceCall ==
    \E old \in {Settle(para)} :
         \E old_text \in Texts(MaxOld), new_text \in Texts(MaxText),
            stamp \in Stamps :
           LET author == stamp[1]
               date == stamp[2]
           IN  Done(old,
                    replace_with_tracking(old, old_text, new_text, author,
                                          date),
                    Call("replace", new_text, 0, 0, 0, old_text, author, date,
                         replace_returns(old, old_text)))

Insert == call.n < MaxCalls /\ InsertCall
Delete == call.n < MaxCalls /\ DeleteCall
Replace == call.n < MaxCalls /\ ReplaceCall

Next == Insert \/ Delete \/ Replace

Spec == Init /\ [][Next]_vars

(***************************************************************************)
(* The same calls on a paragraph made from plain text: it starts empty or  *)
(* as a single run, and every revision in it comes from the calls.         *)
(***************************************************************************)
Fresh == { <<>>, <<Run(<<"a", "b", "a">>)>> }

InitFresh ==
    /\ para \in Fresh
    /\ pre = para
    /\ call = [op |-> "load", text |-> <<>>, position |-> 0,
               start_offset |-> 0, end_offset |-> 0, old_text |-> <<>>,
               author |-> None, date |-> None, ret |-> None, n |-> 0]

FreshInsert == call.n < MaxFreshCalls /\ InsertCall
FreshDelete == call.n < MaxFreshCalls /\ DeleteCall
FreshReplace == call.n < MaxFreshCalls /\ ReplaceCall

NextFresh == FreshInsert \/ FreshDelete \/ FreshReplace

SpecFresh == InitFresh /\ [][NextFresh]_vars

(***************************************************************************)
(* Vocabulary of the properties.                                           *)
(***************************************************************************)
\* the accepted text the last call found, and its length
A == get_accepted_text(pre)
L == Len(A)

\* A[i..j): the characters of text at the 0-based indexes k, i <= k < j
Slice(text, i, j) == SubSeq(text, Max2(i, 0) + 1, Min2(j, Len(text)))

IsNewIns(element) == element.tag = "ins" /\ element.born = "rev"
IsNewDel(element) == element.tag = "del" /\ element.born = "rev"
IsSplit(element) == element.born = "split"
IsDel(element) == element.tag = "del"

\* the number of characters of accepted text before child i
AcceptedStart(children, i) == Len(get_accepted_text(SubSeq(children, 1, i - 1)))

\* the children of pre that hold accepted characters of [s, e)
Overlapped(children, s, e) ==
    {i \in 1..Len(children) :
        /\ children[i].tag \in {"r", "ins"}
        /\ \E k \in s..(e - 1) :
              /\ AcceptedStart(children, i) <= k
              /\ k < AcceptedStart(children, i + 1)}

(***************************************************************************)
(* C1: an insert at an offset p with 0 <= p <= L leaves the accepted text  *)
(* A[0..p) + t + A[p..L), wherever Deleted segments lie.                   *)
(***************************************************************************)
C1_InsertAcceptedText ==
    (call.op = "insert" /\ 0 <= call.position /\ call.position <= L)
    => get_accepted_text(para)
         = Slice(A, 0, call.position) \o call.text \o Slice(A, call.position, L)

\* an insert strictly inside a segment that follows a Deleted segment
C1_Witness ==
    /\ call.op = "insert"
    /\ 0 < call.position /\ call.position < L
    /\ call.text # <<>>
    /\ SelectSeq(pre, IsDel) # <<>>
    /\ Len(SelectSeq(para, IsSplit)) = 2
    /\ \E i \in 1..Len(pre) :
          /\ IsDel(pre[i])
          /\ AcceptedStart(pre, i) < call.position

(***************************************************************************)
(* C2: an insert at a negative offset, or at one beyond the accepted       *)
(* length, appends: the new Inserted segment is the last segment and the   *)
(* accepted text is the old one followed by t.                             *)
(***************************************************************************)
C2_InsertOutOfRangeAppends ==
    (call.op = "insert" /\ (call.position < 0 \/ call.position > L))
    => /\ para # <<>>
       /\ IsNewIns(para[Len(para)])
       /\ para[Len(para)].t = call.text
       /\ get_accepted_text(para) = A \o call.text

(***************************************************************************)
(* C3: an insert at any offset makes the accepted text and the raw text    *)
(* longer by exactly len(t).                                               *)
(***************************************************************************)
C3_InsertLengths ==
    call.op = "insert"
    => /\ Len(get_accepted_text(para)) = L + Len(call.text)
       /\ Len(RawText(para)) = Len(RawText(pre)) + Len(call.text)

\* an insert at an offset below -1 that split a segment in two
C3_Witness ==
    /\ call.op = "insert"
    /\ call.position < -1
    /\ call.text # <<>>
    /\ Len(SelectSeq(para, IsSplit)) = 2

(***************************************************************************)
(* C4: a delete with s < e leaves the accepted text                        *)
(* A[0..max(s,0)) + A[min(e,L)..L), so the accepted text gets shorter by   *)
(* max(0, min(e,L) - max(s,0)), and the texts of the Deleted segments the  *)
(* call created, concatenated, are the removed slice of A.                 *)
(***************************************************************************)
C4_DeleteAcceptedText ==
    (call.op = "delete" /\ call.start_offset < call.end_offset)
    => LET s == Max2(call.start_offset, 0)
           e == Min2(call.end_offset, L)
       IN  /\ get_accepted_text(para) = Slice(A, 0, s) \o Slice(A, e, L)
           /\ Len(get_accepted_text(para)) = L - Max2(0, e - s)
           /\ RawText(SelectSeq(para, IsNewDel)) = Slice(A, s, e)

\* a delete over several segments, one of them cut, around a Deleted segment
C4_Witness ==
    /\ call.op = "delete"
    /\ call.start_offset < call.end_offset
    /\ Len(SelectSeq(para, IsNewDel)) >= 2
    /\ SelectSeq(para, IsSplit) # <<>>
    /\ SelectSeq(pre, IsDel) # <<>>

(***************************************************************************)
(* C5: a delete, whatever s and e, leaves the raw text as it was.          *)
(***************************************************************************)
C5_DeleteKeepsRawText ==
    call.op = "delete" => RawText(para) = RawText(pre)

\* a delete that cut a segment and left an older Deleted segment in place
C5_Witness ==
    /\ call.op = "delete"
    /\ SelectSeq(para, IsNewDel) # <<>>
    /\ SelectSeq(para, IsSplit) # <<>>
    /\ SelectSeq(pre, IsDel) # <<>>
    /\ para # pre

(***************************************************************************)
(* C6: a replace whose non-empty old_text occurs in the accepted text      *)
(* returns true and leaves A[0..pos) + new_text + A[pos+len(old_text)..L), *)
(* pos being the smallest offset at which old_text occurs in A.            *)
(***************************************************************************)
Occurs(text, needle) == \E i \in 0..Len(text) : OccursAt(text, needle, i)

\* i is the smallest offset at which needle occurs in text
FirstAt(text, needle, i) ==
    /\ OccursAt(text, needle, i)
    /\ \A j \in 0..(i - 1) : ~OccursAt(text, needle, j)

C6_ReplaceFirstOccurrence ==
    (call.op = "replace" /\ call.old_text # <<>> /\ Occurs(A, call.old_text))
    => /\ call.ret = TRUE
       /\ \E pos \in 0..L :
             /\ FirstAt(A, call.old_text, pos)
             /\ get_accepted_text(para)
                  = Slice(A, 0, pos) \o call.text
                    \o Slice(A, pos + Len(call.old_text), L)

\* the occurrence lies in two segments with a Deleted segment between them
C6_Witness ==
    /\ call.op = "replace"
    /\ call.old_text # <<>>
    /\ call.ret = TRUE
    /\ \E pos \in 0..L :
          /\ FirstAt(A, call.old_text, pos)
          /\ \E i, j, k \in 1..Len(pre) :
                /\ i < j /\ j < k
                /\ IsDel(pre[j]) /\ pre[j].delText # <<>>
                /\ {i, k} \subseteq Overlapped(pre, pos, pos + Len(call.old_text))

(***************************************************************************)
(* C7: a replace whose old_text does not occur in the accepted text        *)
(* returns false and leaves every segment as it was, also when old_text    *)
(* occurs in a Deleted segment or in the raw text across one.              *)
(***************************************************************************)
C7_ReplaceNotFound ==
    (call.op = "replace" /\ ~Occurs(A, call.old_text))
    => /\ call.ret = FALSE
       /\ para = pre

\* old_text is in the raw text, and only there
C7_Witness ==
    /\ call.op = "replace"
    /\ ~Occurs(A, call.old_text)
    /\ Occurs(RawText(pre), call.old_text)
    /\ call.text # <<>>
    /\ call.ret = FALSE

(***************************************************************************)
(* C8, as claimed: after a successful replace of a non-empty old_text by a *)
(* non-empty new_text the revision list is the list before the call with   *)
(* exactly one Deleted revision (text old_text) and exactly one Inserted   *)
(* revision (text new_text) added.                                         *)
(***************************************************************************)
\* seq without its elements at the indexes i and j
Without(seq, i, j) ==
    LET keep == {k \in 1..Len(seq) : k # i /\ k # j}
        nth[n \in 0..Len(seq)] ==
            IF n = 0 THEN 0
            ELSE CHOOSE k \in keep : k > nth[n - 1]
                                     /\ \A m \in keep : m > nth[n - 1] => k <= m
    IN  [n \in 1..Cardinality(keep) |-> seq[nth[n]]]

ReplaceDone ==
    /\ call.op = "replace"
    /\ call.old_text # <<>>
    /\ call.text # <<>>
    /\ call.ret = TRUE

TwoRevisionsAdded ==
    LET after == get_revisions(para) IN
    \E i, j \in 1..Len(after) :
        /\ i # j
        /\ after[i].type = "del" /\ after[i].text = call.old_text
        /\ after[j].type = "ins" /\ after[j].text = call.text
        /\ Without(after, i, j) = get_revisions(pre)

C8_ReplaceTwoRevisions == ReplaceDone => TwoRevisionsAdded

(***************************************************************************)
(* C8, amended: a successful replace of a non-empty old_text by a          *)
(* non-empty new_text is recorded in the elements it creates as exactly    *)
(* one Inserted revision, with text new_text, and one Deleted revision for *)
(* each Run or Inserted segment that holds characters of the occurrence,   *)
(* their texts concatenated being old_text; when the occurrence lies in    *)
(* one Run segment the revision list is the list before the call with      *)
(* exactly one Deleted revision (text old_text) and one Inserted revision  *)
(* (text new_text) added.                                                  *)
(***************************************************************************)
\* the children of pre holding characters of the replaced occurrence
Replaced ==
    LET pos == CHOOSE i \in 0..L : FirstAt(A, call.old_text, i)
    IN  Overlapped(pre, pos, pos + Len(call.old_text))

IsNew(element) == element.born = "rev"
IsInsRevision(revision) == revision.type = "ins"
IsDelRevision(revision) == revision.type = "del"

RECURSIVE RevisionsText(_)
RevisionsText(revisions) ==
    IF revisions = <<>> THEN <<>>
    ELSE Head(revisions).text \o RevisionsText(Tail(revisions))

C8_ReplaceRevisionsPerSegment ==
    ReplaceDone
    => LET made == get_revisions(SelectSeq(para, IsNew)) IN
       /\ Len(SelectSeq(made, IsInsRevision)) = 1
       /\ SelectSeq(made, IsInsRevision)[1].text = call.text
       /\ Len(SelectSeq(made, IsDelRevision)) = Cardinality(Replaced)
       /\ RevisionsText(SelectSeq(made, IsDelRevision)) = call.old_text
       /\ (\E i \in 1..Len(pre) : Replaced = {i} /\ pre[i].tag = "r")
          => TwoRevisionsAdded

\* a replace inside one Run segment, next to older revisions
C8_Witness ==
    /\ ReplaceDone
    /\ \E i \in 1..Len(pre) : Replaced = {i} /\ pre[i].tag = "r"
    /\ get_revisions(pre) # <<>>
    /\ SelectSeq(para, IsSplit) # <<>>

(***************************************************************************)
(* C9: every Inserted or Deleted segment a call created carries the author *)
(* and the timestamp of that call, also a Deleted segment made from the    *)
(* text of an Inserted segment.                                            *)
(***************************************************************************)
C9_Attribution ==
    \A i \in 1..Len(para) :
        para[i].born = "rev"
        => /\ para[i].tag \in {"ins", "del"}
           /\ para[i].author = call.author
           /\ para[i].date = IsoFormat(call.date)
           /\ FromIsoFormat(para[i].date) = call.date

\* a delete by another author, at another time, of a whole Inserted segment
C9_Witness ==
    /\ call.op = "delete"
    /\ SelectSeq(para, IsNewDel) # <<>>
    /\ \E i \in 1..Len(pre) :
          /\ pre[i].tag = "ins"
          /\ pre[i].t # <<>>
          /\ pre[i].author # call.author
          /\ pre[i].date # IsoFormat(call.date)
          /\ call.start_offset <= AcceptedStart(pre, i)
          /\ AcceptedStart(pre, i + 1) <= call.end_offset

(***************************************************************************)
(* C10: after an insert of t at an offset p with 0 <= p <= L, deleting     *)
(* [p, p + len(t)) gives back the accepted text the insert found.          *)
(***************************************************************************)
C10_InsertDeleteRoundTrip ==
    (call.op = "insert" /\ 0 <= call.position /\ call.position <= L)
    => \A stamp \in Stamps :
          get_accepted_text(
              delete_with_tracking(Settle(para), call.position,
                                   call.position + Len(call.text),
                                   stamp[1], stamp[2])) = A

\* an insert strictly inside a segment, accepted text before and after it
C10_Witness ==
    /\ call.op = "insert"
    /\ 0 < call.position /\ call.position < L
    /\ call.text # <<>>
    /\ Len(SelectSeq(para, IsSplit)) = 2
    /\ get_accepted_text(para) # A

(***************************************************************************)
(* C11: an insert of the empty text leaves the segment sequence as it was: *)
(* no segment is added, split or altered.                                  *)
(***************************************************************************)
C11_InsertEmptyIsNoOp ==
    (call.op = "insert" /\ call.text = <<>>) => para = pre

(***************************************************************************)
(* C12: a delete with s >= e, and an insert of the empty text, leave the   *)
(* accepted text and the raw text as they were.                            *)
(***************************************************************************)
NoOpEdit ==
    \/ call.op = "delete" /\ call.start_offset >= call.end_offset
    \/ call.op = "insert" /\ call.text = <<>>

C12_NoOpEditsKeepTexts ==
    NoOpEdit
    => /\ get_accepted_text(para) = A
       /\ RawText(para) = RawText(pre)

\* an insert of the empty text that split a segment in two
C12_Witness ==
    /\ call.op = "insert"
    /\ call.text = <<>>
    /\ Len(SelectSeq(para, IsSplit)) = 2
    /\ para # pre

(***************************************************************************)
(* C13: from a paragraph that is empty or a single Run, after any calls no *)
(* two adjacent segments have the same kind and the same author and        *)
(* timestamp; stated here for its case of one delete call over several     *)
(* segments, which leaves no two adjacent Deleted segments of that call    *)
(* (segments with text, so that an empty one does not decide it).          *)
(***************************************************************************)
SameKindAndAttribution(x, y) ==
    /\ x.tag = y.tag
    /\ x.author = y.author
    /\ x.date = y.date

C13_DeleteLeavesNoAdjacentDeleted ==
    call.op = "delete"
    => \A i \in 1..(Len(para) - 1) :
          ~(/\ IsNewDel(para[i]) /\ para[i].delText # <<>>
            /\ IsNewDel(para[i + 1]) /\ para[i + 1].delText # <<>>
            /\ SameKindAndAttribution(para[i], para[i + 1]))

(***************************************************************************)
(* C14: a call on a sequence with no empty segment, whatever its texts and *)
(* offsets, leaves a sequence with no empty segment.                       *)
(***************************************************************************)
NoEmptySegment(children) ==
    \A i \in 1..Len(children) :
        _extract_text_from_element(children[i]) # <<>>

C14_NoEmptySegment ==
    NoEmptySegment(pre) => NoEmptySegment(para)

(***************************************************************************)
(* C15: the revisions of a sequence are, in sequence order, exactly one    *)
(* Revision for each Inserted or Deleted segment with a non-empty text,    *)
(* with that segment's kind, text and author; runs and empty segments      *)
(* give none, so a sequence of runs only, or an empty one, gives the empty *)
(* list.                                                                   *)
(***************************************************************************)
RevisionBearing(children) ==
    { i \in 1..Len(children) :
        /\ children[i].tag \in {"ins", "del"}
        /\ _extract_text_from_element(children[i]) # <<>> }

\* the place in the list of the revision of the i-th segment
RevisionRank(children, i) ==
    Cardinality({ j \in RevisionBearing(children) : j <= i })

C15_RevisionsPerSegment ==
    LET revisions == get_revisions(para)
        bearing == RevisionBearing(para)
    IN  /\ Len(revisions) = Cardinality(bearing)
        /\ \A i \in bearing :
              LET revision == revisions[RevisionRank(para, i)] IN
                  /\ revision.type = para[i].tag
                  /\ revision.text = _extract_text_from_element(para[i])
                  /\ revision.author = para[i].author
        /\ (\A i \in 1..Len(para) : para[i].tag = "r") => revisions = <<>>

C15_Witness ==
    /\ Len(get_revisions(para)) = 2
    /\ get_revisions(para)[1].type = "del"
    /\ get_revisions(para)[2].type = "ins"
    /\ \E i \in 1..Len(para) : para[i].tag = "r"
    /\ \E i \in 1..Len(para) :
          /\ para[i].tag = "ins"
          /\ _extract_text_from_element(para[i]) = <<>>

(***************************************************************************)
(* C16: delete frame.  As stated: every Deleted segment, and every Run or  *)
(* Inserted segment that shares no accepted offset with [s, e), is in the  *)
(* result unchanged and in the same relative order, and only the other     *)
(* segments are changed.                                                   *)
(***************************************************************************)
IsPre(element) == element.born = "pre"

\* the place of the i-th segment among the segments of S
Rank(S, i) == Cardinality({ j \in S : j <= i })

\* the segments of pre at the indices of S are, in order, the segments of
\* para that the call did not make
PassedThrough(S) ==
    LET kept == SelectSeq(para, IsPre) IN
        /\ Len(kept) = Cardinality(S)
        /\ \A i \in S : kept[Rank(S, i)] = pre[i]

InRange(children, s, e) ==
    { i \in 1..Len(children) :
        /\ children[i].tag \in {"r", "ins"}
        /\ s < e
        /\ AcceptedStart(children, i + 1) > s
        /\ AcceptedStart(children, i) < e }

NewInserted == Settle(<<_create_insertion_element(call.text, call.author, call.date)>>)

\* pre with the new segment put in after its k-th segment
PutAfter(k) == SubSeq(pre, 1, k) \o NewInserted \o SubSeq(pre, k + 1, Len(pre))

\* pre with its k-th segment replaced by its halves at offset o around the
\* new segment
HalvedAt(k, o) ==
    LET text == _extract_text_from_element(pre[k]) IN
        SubSeq(pre, 1, k - 1)
        \o <<[pre[k] EXCEPT !.t = SubSeq(text, 1, o)]>>
        \o NewInserted
        \o <<[pre[k] EXCEPT !.t = SubSeq(text, o + 1, Len(text))]>>
        \o SubSeq(pre, k + 1, Len(pre))

StrictlyInside(k, p) ==
    /\ pre[k].tag \in {"r", "ins"}
    /\ AcceptedStart(pre, k) < p
    /\ p < AcceptedStart(pre, k + 1)

C17_InsertFrame ==
    (call.op = "insert" /\ call.text # <<>>)
    => \/ \E k \in 0..Len(pre) : Settle(para) = PutAfter(k)
       \/ \E k \in 1..Len(pre) :
             /\ StrictlyInside(k, call.position)
             /\ Settle(para) = HalvedAt(k, call.position - AcceptedStart(pre, k))

(***************************************************************************)
(* C18: when insert or delete splits a Run or Inserted segment, each piece *)
(* it keeps has the original's kind and, for an Inserted original, its     *)
(* author, timestamp and identifier; the texts of the pieces, with the     *)
(* deleted middle of a delete, concatenate in order to the original's      *)
(* text.                                                                   *)
(***************************************************************************)
NotNewIns(element) == ~IsNewIns(element)

\* the sequence after the call, without the segment an insert has added
Base == IF call.op = "insert" THEN SelectSeq(para, NotNewIns) ELSE para

RawStart(children, i) == Len(RawText(SubSeq(children, 1, i - 1)))

SameKindAndFullAttribution(x, y) ==
    /\ x.tag = y.tag
    /\ x.author = y.author
    /\ x.date = y.date
    /\ x.id = y.id

\* the segments a..b of Base are what the call has made of the j-th segment
\* of pre: kept pieces and new deletions whose texts give its text
PiecesOf(j, a, b) ==
    /\ RawStart(Base, a) = RawStart(pre, j)
    /\ RawStart(Base, b + 1) = RawStart(pre, j + 1)
    /\ RawText(SubSeq(Base, a, b)) = _extract_text_from_element(pre[j])
    /\ \A i \in a..b :
          \/ IsSplit(Base[i]) /\ SameKindAndFullAttribution(Base[i], pre[j])
          \/ IsNewDel(Base[i]) /\ call.op = "delete"

C18_SplitKeepsKindAndAttribution ==
    call.op \in {"insert", "delete"}
    => \A i \in 1..Len(Base) :
          IsSplit(Base[i])
          => \E j \in 1..Len(pre), a \in 1..i, b \in i..Len(Base) :
                /\ pre[j].tag \in {"r", "ins"}
                /\ PiecesOf(j, a, b)

C18_Witness ==
    /\ call.op = "delete"
    /\ \E i \in 1..Len(para) :
          /\ IsSplit(para[i])
          /\ para[i].tag = "ins"
          /\ para[i].author # call.author
          /\ para[i].id # None

(***************************************************************************)
(* C19: boundary tie-break.  When the offset p of an insert, 0 <= p < L,   *)
(* is the accepted start of a non-empty Run or Inserted segment, nothing   *)
(* is split and the new segment stands immediately before that segment,    *)
(* after the Deleted segments that precede it; when p = L the new segment  *)
(* is appended after all segments, trailing Deleted ones included.         *)
(***************************************************************************)
StartsAt(k, p) ==
    /\ pre[k].tag \in {"r", "ins"}
    /\ _extract_text_from_element(pre[k]) # <<>>
    /\ AcceptedStart(pre, k) = p

C19_BoundaryTieBreak ==
    call.op = "insert"
    => /\ \A k \in 1..Len(pre) :
             (0 <= call.position /\ call.position < L /\ StartsAt(k, call.position))
             => Settle(para) = PutAfter(k - 1)
       /\ call.position = L => Settle(para) = PutAfter(Len(pre))

C19_Witness ==
    /\ call.op = "insert"
    /\ call.text # <<>>
    /\ \E k \in 3..Len(pre) :
          /\ StartsAt(k, call.position)
          /\ pre[k - 1].tag = "del"
          /\ pre[k - 2].tag = "r"
          /\ para[k].born = "rev"

(***************************************************************************)
(* C20: a replace with an empty old_text matches at accepted offset 0: on  *)
(* every sequence it returns true, creates no Deleted segment, and the     *)
(* accepted text becomes new_text followed by the accepted text before.    *)
(***************************************************************************)
C20_ReplaceEmptyOldText ==
    (call.op = "replace" /\ call.old_text = <<>>)
    => /\ call.ret = TRUE
       /\ SelectSeq(para, IsNewDel) = <<>>
       /\ SelectSeq(para, IsDel) = SelectSeq(pre, IsDel)
       /\ get_accepted_text(para) = call.text \o A

C20_Witness ==
    /\ call.op = "replace"
    /\ call.old_text = <<>>
    /\ call.text # <<>>
    /\ A # <<>>
    /\ pre[1].tag = "del"
    /\ call.ret = TRUE

(***************************************************************************)
(* C21: ordering inside one replace.  After a successful replace of a      *)
(* non-empty old_text by a non-empty new_text, the new Inserted segment    *)
(* stands after every Deleted segment the replace has made and before the  *)
(* segment that holds the first accepted character following the replaced  *)
(* occurrence, or at the end when no character follows it; the raw text    *)
(* therefore shows the old text before the new text.                       *)
(***************************************************************************)
\* the accepted offset of the replaced occurrence
ReplacedAt == CHOOSE i \in 0..L : FirstAt(A, call.old_text, i)

\* the segment of children that holds the accepted character at offset k
Holds(children, i, k) ==
    /\ children[i].tag \in {"r", "ins"}
    /\ AcceptedStart(children, i) <= k
    /\ k < AcceptedStart(children, i + 1)

C21_ReplaceOrder ==
    ReplaceDone
    => \E k \in 1..Len(para) :
          /\ IsNewIns(para[k])
          /\ \A i \in 1..Len(para) : IsNewIns(para[i]) => i = k
          /\ \A i \in 1..Len(para) : IsNewDel(para[i]) => i < k
          /\ \A i \in 1..Len(para) :
                Holds(para, i, ReplacedAt + Len(call.text)) => k < i
          /\ ReplacedAt + Len(call.old_text) = L => k = Len(para)

C21_Witness ==
    /\ ReplaceDone
    /\ Len(SelectSeq(para, IsNewDel)) = 2
    /\ ReplacedAt + Len(call.old_text) < L
    /\ \E k \in 2..(Len(para) - 1) :
          /\ IsNewIns(para[k])
          /\ IsNewDel(para[k - 1])
          /\ Holds(para, k + 1, ReplacedAt + Len(call.text))

====
